---------------------------- MODULE Spec2Model ----------------------------
(***************************************************************************)
(* Scam-SMS prediction service: the ScamPredictor of predict.py (feature   *)
(* extraction, schema alignment, scoring, explanation, batch), the Flask   *)
(* endpoints of api_server.py that wrap it, and the training run of        *)
(* train_model.py that writes the bundle the predictor loads.              *)
(*                                                                         *)
(* Specifications.  Spec: the endpoints, one request at a time.            *)
(* ServeSpec: concurrent /predict requests, statement by statement.        *)
(* TrainSpec: main() of the trainer, then the saved bundle serving the     *)
(* rows it was trained on.                                                 *)
(*                                                                         *)
(* Values.  A cell of a one-row DataFrame is a tagged value: a number, a   *)
(* string (a sequence of one-character strings, so that len, split, strip, *)
(* lower and numeric parsing are computed and not assumed), or None.  A    *)
(* key that a request mapping does not carry maps to Absent.  Numbers are  *)
(* integers; probabilities and importances are in percent.                 *)
(*                                                                         *)
(* Frames.  A one-row DataFrame is a sequence of columns (name, value);    *)
(* the sequence may hold the same name twice, as a pandas frame may after  *)
(* pd.concat(axis=1).                                                      *)
(***************************************************************************)
EXTENDS Integers, Sequences, FiniteSets, TLC

(***************************************************************************)
(* Bounds of the model.                                                    *)
(***************************************************************************)
\* number of fields in which a request record differs from a base record
MaxEdits == 2
\* number of records in a batch request
MaxBatch == 3
\* number of requests the server handles at the same time
MaxThreads == 2

(***************************************************************************)
(* Values and strings.                                                     *)
(***************************************************************************)
Absent == [t |-> "absent", n |-> 0, s |-> << >>]
Null == [t |-> "null", n |-> 0, s |-> << >>]
Num(n) == [t |-> "num", n |-> n, s |-> << >>]
Str(s) == [t |-> "str", n |-> 0, s |-> s]

Digits == <<"0", "1", "2", "3", "4", "5", "6", "7", "8", "9">>
Uppers == <<"A", "B", "C", "D", "E", "F", "G", "H", "I", "J", "K", "L", "M",
            "N", "O", "P", "Q", "R", "S", "T", "U", "V", "W", "X", "Y", "Z">>
Lowers == <<"a", "b", "c", "d", "e", "f", "g", "h", "i", "j", "k", "l", "m",
            "n", "o", "p", "q", "r", "s", "t", "u", "v", "w", "x", "y", "z">>

Range(f) == {f[i] : i \in DOMAIN f}
DigitChars == Range(Digits)
UpperChars == Range(Uppers)
\* \w of the token patterns: letters, digits and the underscore
WordChars == Range(Digits) \cup Range(Uppers) \cup Range(Lowers) \cup {"_"}
IsDigit(c) == c \in DigitChars
IsSpace(c) == c = " "
IsWordChar(c) == c \in WordChars
DigitVal(c) == (CHOOSE i \in DOMAIN Digits : Digits[i] = c) - 1

\* str.lower() on one character and on a string
LowerChar(c) ==
    IF c \in UpperChars
    THEN Lowers[CHOOSE i \in DOMAIN Uppers : Uppers[i] = c]
    ELSE c
PyLower(s) == [i \in DOMAIN s |-> LowerChar(s[i])]

\* str(n) of an integer
RECURSIVE NatStr(_)
NatStr(n) == IF n < 10 THEN <<Digits[n + 1]>>
             ELSE NatStr(n \div 10) \o <<Digits[(n % 10) + 1]>>
IntStr(n) == IF n < 0 THEN <<"-">> \o NatStr(0 - n) ELSE NatStr(n)

\* str(x) of a cell
PyStr(v) ==
    CASE v.t = "str" -> v.s
      [] v.t = "num" -> IntStr(v.n)
      [] OTHER -> <<"N", "o", "n", "e">>

\* pd.notna(x)
NotNa(v) == v.t \in {"num", "str"}
\* truth value of str.strip(): some character is not white space
StripNonEmpty(s) == \E i \in DOMAIN s : ~IsSpace(s[i])
\* len(s.split(',')): one more than the number of commas
SplitCommaLen(s) == Cardinality({i \in DOMAIN s : s[i] = ","}) + 1

\* the value of a string of decimal digits
RECURSIVE DigitsVal(_)
DigitsVal(s) == IF s = << >> THEN 0
                ELSE 10 * DigitsVal(SubSeq(s, 1, Len(s) - 1)) + DigitVal(s[Len(s)])
\* pd.to_numeric(x, errors='coerce').fillna(0) on one cell: a string that
\* parses gives its number, a string that does not gives NaN and then 0
ToNumericCoerce(v) ==
    CASE v.t = "num" -> v.n
      [] v.t = "str" ->
           IF v.s # << >> /\ \A i \in DOMAIN v.s : IsDigit(v.s[i])
           THEN DigitsVal(v.s) ELSE 0
      [] OTHER -> 0

(***************************************************************************)
(* One-row frames.                                                         *)
(***************************************************************************)
Col(name, val) == [name |-> name, val |-> val]
HasCol(df, c) == \E i \in DOMAIN df : df[i].name = c
ColCount(df, c) == Cardinality({i \in DOMAIN df : df[i].name = c})
Columns(df) == [i \in DOMAIN df |-> df[i].name]
\* df[c] of a frame in which c is a column
GetCol(df, c) == df[CHOOSE i \in DOMAIN df : df[i].name = c].val
\* df[c] = v: overwrites the column in place, or appends a new last column
SetCol(df, c, v) ==
    IF HasCol(df, c)
    THEN [i \in DOMAIN df |-> IF df[i].name = c THEN Col(c, v) ELSE df[i]]
    ELSE Append(df, Col(c, v))

RECURSIVE SumSeq(_)
SumSeq(q) == IF q = << >> THEN 0 ELSE q[1] + SumSeq(Tail(q))


(***************************************************************************)
(* The fitted bundle.  The trainer writes the bundle the predictor loads:  *)
(* the schema is the list of the training frame's columns that are not     *)
(* excluded, in frame order: the numeric columns of the data set, then the *)
(* message TF-IDF block, the keyword TF-IDF block and the derived columns  *)
(* (when text features are on).  A vectorizer whose fit failed in training *)
(* stays in the bundle unfitted and its block is not part of the schema.   *)
(* The data set has two numeric columns here and each fitted vocabulary    *)
(* has one term, for which an L2-normalised TF-IDF row is 1 when the term  *)
(* occurs in the document and 0 when it does not.                          *)
(***************************************************************************)
NumericColumns == <<"message_length", "has_url">>
DerivedColumns == <<"keyword_count", "reason_length", "emotion_trigger_count",
                    "action_click_link", "action_reply", "action_call_number",
                    "action_provide_info", "impersonate_company",
                    "impersonate_bank", "impersonate_government",
                    "impersonate_courier">>
TfidfMsgColumns == <<"tfidf_msg_0">>
TfidfKwColumns == <<"tfidf_kw_0">>
\* fitted vocabularies (vocabulary_ of the two TfidfVectorizers)
MsgVocabulary == <<  <<"p", "r", "i", "z", "e">>  >>
KwVocabulary == <<  <<"c", "a", "s", "h">>  >>

\* feature_columns as preprocess_data builds it
TrainedFeatureColumns(use_text, tfidf, kw) ==
    NumericColumns
    \o (IF use_text /\ tfidf = "fitted" THEN TfidfMsgColumns ELSE << >>)
    \o (IF use_text /\ kw = "fitted" THEN TfidfKwColumns ELSE << >>)
    \o (IF use_text THEN DerivedColumns ELSE << >>)

\* the model_data dictionary that save_model dumps and __init__ loads
Bundle(use_text, tfidf, kw) ==
    [use_text_features |-> use_text,
     tfidf_vectorizer |-> IF use_text THEN tfidf ELSE "none",
     keyword_vectorizer |-> IF use_text THEN kw ELSE "none",
     feature_columns |-> TrainedFeatureColumns(use_text, tfidf, kw)]

Bundles == {Bundle(FALSE, "none", "none")}
           \cup {Bundle(TRUE, a, b) : a \in {"fitted", "unfitted"},
                                      b \in {"fitted", "unfitted"}}

(***************************************************************************)
(* _extract_text_features                                                  *)
(***************************************************************************)
TextFields == <<"message_text", "openai_reason", "openai_keywords",
                "openai_emotion_triggers", "openai_action_requested",
                "openai_impersonation_type">>

common_actions == <<
    <<"c", "l", "i", "c", "k", "_", "l", "i", "n", "k">>,
    <<"r", "e", "p", "l", "y">>,
    <<"c", "a", "l", "l", "_", "n", "u", "m", "b", "e", "r">>,
    <<"p", "r", "o", "v", "i", "d", "e", "_", "i", "n", "f", "o">> >>
ActionColumns == <<"action_click_link", "action_reply", "action_call_number",
                   "action_provide_info">>
common_impersonations == <<
    <<"c", "o", "m", "p", "a", "n", "y">>,
    <<"b", "a", "n", "k">>,
    <<"g", "o", "v", "e", "r", "n", "m", "e", "n", "t">>,
    <<"c", "o", "u", "r", "i", "e", "r">> >>
ImpersonateColumns == <<"impersonate_company", "impersonate_bank",
                        "impersonate_government", "impersonate_courier">>

\* Series.fillna('') on one cell
FillNaText(v) == IF v.t = "null" THEN Str(<< >>) ELSE v

\* Lines 60-65, field i onwards: df[f] = df.get(f, '').fillna('').  When f is
\* not a column, df.get returns the default '', a str, and ''.fillna raises
\* AttributeError.
RECURSIVE FillMissingText(_, _)
FillMissingText(df, i) ==
    IF i > Len(TextFields) THEN [exc |-> "", df |-> df]
    ELSE IF ~HasCol(df, TextFields[i])
         THEN [exc |-> "'str' object has no attribute 'fillna'", df |-> df]
         ELSE FillMissingText(
                  SetCol(df, TextFields[i], FillNaText(GetCol(df, TextFields[i]))),
                  i + 1)

\* the tokens a token pattern finds: the maximal runs of word characters of
\* at least minLen characters, of the lower-cased document
Tokens(s, minLen) ==
    LET d == PyLower(s)
        IsRun(i, j) == /\ \A k \in i..j : IsWordChar(d[k])
                       /\ (i = 1 \/ ~IsWordChar(d[i - 1]))
                       /\ (j = Len(d) \/ ~IsWordChar(d[j + 1]))
    IN  {SubSeq(d, i, j) : <<i, j>> \in
            {p \in (DOMAIN d) \X (DOMAIN d) :
                p[1] <= p[2] /\ p[2] - p[1] + 1 >= minLen /\ IsRun(p[1], p[2])}}

\* the vectorizer fitted anew on the one document of the request
\* (fit_transform): min_df = 2 exceeds the documents at hand and the fit
\* raises
TransformRefit(vectorizer, vocabulary, minLen, v) == [ok |-> FALSE, row |-> << >>]

\* vectorizer.transform(df[field]).toarray() for the one row: fails
\* (NotFittedError) on an unfitted vectorizer and (AttributeError, no
\* .lower()) on a document that is not a string
Transform(vectorizer, vocabulary, minLen, v) ==
    IF vectorizer # "fitted" \/ v.t # "str"
    THEN [ok |-> FALSE, row |-> << >>]
    ELSE [ok |-> TRUE,
          row |-> [i \in DOMAIN vocabulary |->
                      IF vocabulary[i] \in Tokens(v.s, minLen) THEN 1 ELSE 0]]

\* try: transform, name the block's columns, pd.concat([df, block], axis=1)
\* except Exception: print a warning (the frame is left as it was)
ConcatBlock(df, r, names) ==
    IF r.ok THEN df \o [i \in DOMAIN r.row |-> Col(names[i], Num(r.row[i]))]
    ELSE df
ConcatTfidf(df, vectorizer, vocabulary, minLen, field, names) ==
    IF vectorizer = "none" THEN df
    ELSE ConcatBlock(df, Transform(vectorizer, vocabulary, minLen, GetCol(df, field)),
                     names)

\* len(str(x).split(',')) if pd.notna(x) and str(x).strip() else 0
CommaCount(v) ==
    IF NotNa(v) /\ StripNonEmpty(PyStr(v)) THEN SplitCommaLen(PyStr(v)) ELSE 0
\* len(str(x)) if pd.notna(x) else 0
ReasonLength(v) == IF NotNa(v) THEN Len(PyStr(v)) ELSE 0

\* the comparison without lower()
OneHotCaseSensitive(v, entry) == IF PyStr(v) = entry THEN 1 ELSE 0

\* 1 if str(x).lower() == entry else 0
OneHot(v, entry) == IF PyLower(PyStr(v)) = entry THEN 1 ELSE 0

\* for entry in vocabulary: df[prefix + entry] = df[field].apply(one-hot),
\* entry i onwards
RECURSIVE OneHotBlock(_, _, _, _, _)
OneHotBlock(df, field, vocabulary, names, i) ==
    IF i > Len(vocabulary) THEN df
    ELSE OneHotBlock(
             SetCol(df, names[i], Num(OneHot(GetCol(df, field), vocabulary[i]))),
             field, vocabulary, names, i + 1)

\* df['keyword_count'] = df['openai_keywords'].apply(...)
AddKeywordCount(df) ==
    SetCol(df, "keyword_count", Num(CommaCount(GetCol(df, "openai_keywords"))))
\* df['reason_length'] = df['openai_reason'].apply(...)
AddReasonLength(df) ==
    SetCol(df, "reason_length", Num(ReasonLength(GetCol(df, "openai_reason"))))
\* df['emotion_trigger_count'] = df['openai_emotion_triggers'].apply(...)
AddEmotionTriggerCount(df) ==
    SetCol(df, "emotion_trigger_count",
           Num(CommaCount(GetCol(df, "openai_emotion_triggers"))))

\* lines 67-122 on a frame whose text fields are filled
ExtractFilled(self, df) ==
    OneHotBlock(
        OneHotBlock(
            AddEmotionTriggerCount(AddReasonLength(AddKeywordCount(
                ConcatTfidf(
                    ConcatTfidf(df, self.tfidf_vectorizer, MsgVocabulary, 2,
                                "message_text", TfidfMsgColumns),
                    self.keyword_vectorizer, KwVocabulary, 1,
                    "openai_keywords", TfidfKwColumns)))),
            "openai_action_requested", common_actions, ActionColumns, 1),
        "openai_impersonation_type", common_impersonations, ImpersonateColumns, 1)

\* the rest of the extractor after the fill of lines 60-65: the exception of
\* the fill, or the frame with the derived and vectorized columns
AfterFill(self, filled) ==
    IF filled.exc # "" THEN filled
    ELSE [exc |-> "", df |-> ExtractFilled(self, filled.df)]

\* The extractor: the frame with the derived and vectorized columns, or the
\* exception that leaves it.
_extract_text_features(self, df) == AfterFill(self, FillMissingText(df, 1))

(***************************************************************************)
(* prepare_features                                                        *)
(***************************************************************************)
\* the keys a request mapping may carry, in the order the mapping lists them
KeyOrder == <<"message_text", "openai_reason", "openai_keywords",
              "openai_emotion_triggers", "openai_action_requested",
              "openai_impersonation_type", "message_length", "has_url",
              "tfidf_msg_0", "tfidf_kw_0", "keyword_count", "junk">>
Keys == Range(KeyOrder)

\* pd.DataFrame([message_data]): one column per key of the mapping
DataFrame(message_data) ==
    LET F[i \in 0..Len(KeyOrder)] ==
            IF i = 0 THEN << >>
            ELSE LET prev == F[i - 1] IN
                 IF message_data[KeyOrder[i]] = Absent THEN prev
                 ELSE Append(prev, Col(KeyOrder[i], message_data[KeyOrder[i]]))
    IN  F[Len(KeyOrder)]

\* for col in feature_columns: if col not in df.columns: df[col] = 0
EnsureColumns(df, feature_columns) ==
    LET F[i \in 0..Len(feature_columns)] ==
            IF i = 0 THEN df
            ELSE LET prev == F[i - 1] IN
                 IF HasCol(prev, feature_columns[i]) THEN prev
                 ELSE SetCol(prev, feature_columns[i], Num(0))
    IN  F[Len(feature_columns)]

\* df[feature_columns]: for each listed name in turn, every column of the
\* frame that carries the name
SelectColumns(df, feature_columns) ==
    LET F[i \in 0..Len(feature_columns)] ==
            IF i = 0 THEN << >>
            ELSE F[i - 1] \o SelectSeq(df, LAMBDA c : c.name = feature_columns[i])
    IN  F[Len(feature_columns)]

\* .fillna(0)
FillNaZero(df) ==
    [i \in DOMAIN df |-> IF df[i].val.t = "null" THEN Col(df[i].name, Num(0))
                         ELSE df[i]]

\* for col in X.columns: if X[col].dtype == 'object': X[col] = to_numeric(...)
\* X[col] of a name that two columns carry is a DataFrame, which has no
\* attribute dtype: AttributeError, outside the try
CoerceTypes(X) ==
    IF \E i \in DOMAIN X : ColCount(X, X[i].name) > 1
    THEN [exc |-> "'DataFrame' object has no attribute 'dtype'", df |-> X]
    ELSE [exc |-> "",
          df |-> [i \in DOMAIN X |-> Col(X[i].name, Num(ToNumericCoerce(X[i].val)))]]

\* lines 35-36 on the frame of line 32
ExtractFrame(self, df) ==
    IF self.use_text_features /\ self.tfidf_vectorizer # "none"
    THEN _extract_text_features(self, df)
    ELSE [exc |-> "", df |-> df]

\* the frame after the extraction step of prepare_features (lines 32-36)
ExtractStep(self, message_data) == ExtractFrame(self, DataFrame(message_data))

\* the aligner (lines 38-54) on what the extraction step left
AlignStep(self, e) ==
    IF e.exc # "" THEN e
    ELSE CoerceTypes(FillNaZero(SelectColumns(
             EnsureColumns(e.df, self.feature_columns), self.feature_columns)))

prepare_features(self, message_data) ==
    AlignStep(self, ExtractStep(self, message_data))

(***************************************************************************)
(* Scaler and classifier.  Both are fitted library objects of the bundle;  *)
(* they are deterministic functions of the aligned vector.  The scaler     *)
(* subtracts a stored per-column mean (unit scale); the classifier is an   *)
(* additive score clipped to a probability, and labels 1 exactly when      *)
(* p_scam exceeds one half.                                                *)
(***************************************************************************)
ScalerMean(name) == IF name = "message_length" THEN 3 ELSE 0

Weight(name) ==
    CASE name = "message_length" -> 1
      [] name = "has_url" -> 20
      [] name \in {"tfidf_msg_0", "tfidf_kw_0", "action_click_link"} -> 10
      [] name = "reason_length" -> 0
      [] OTHER -> 5
Bias == 10

\* model.feature_importances_, by column
Importance(name) ==
    CASE name = "message_length" -> 5
      [] name = "has_url" -> 20
      [] name = "tfidf_msg_0" -> 15
      [] name = "tfidf_kw_0" -> 10
      [] name = "keyword_count" -> 8
      [] name = "reason_length" -> 2
      [] name = "emotion_trigger_count" -> 6
      [] name = "action_click_link" -> 12
      [] name \in {"action_reply", "impersonate_bank"} -> 4
      [] name = "impersonate_company" -> 2
      [] OTHER -> 3

\* scaler.transform(X)
ScalerTransform(X) == [i \in DOMAIN X |-> X[i].val.n - ScalerMean(X[i].name)]

\* model.predict_proba(X_scaled)[0][1], in percent
Clip(score) == IF score < 0 THEN 0 ELSE IF score > 100 THEN 100 ELSE score
Score(X, xs) == Bias + SumSeq([i \in DOMAIN X |-> Weight(X[i].name) * xs[i]])
PredictProba(X) == Clip(Score(X, ScalerTransform(X)))
\* model.predict(X_scaled)[0]
ModelPredict(X) == IF PredictProba(X) > 50 THEN 1 ELSE 0

(***************************************************************************)
(* predict, _get_top_features, predict_batch                               *)
(***************************************************************************)
HighThreshold == 80
MediumThreshold == 60
TopN == 5

\* the thresholds taken as exclusive
ConfidenceExclusive(scam_prob) ==
    IF scam_prob > 80 THEN "High"
    ELSE IF scam_prob > 60 THEN "Medium"
    ELSE "Low"

\* the tier of the probability of the predicted class, scam or normal
ConfidenceOfWinner(scam_prob) ==
    IF scam_prob >= 80 \/ 100 - scam_prob >= 80 THEN "High"
    ELSE IF scam_prob >= 60 \/ 100 - scam_prob >= 60 THEN "Medium"
    ELSE "Low"

\* lines 140-146
Confidence(scam_prob) ==
    IF scam_prob >= HighThreshold THEN "High"
    ELSE IF scam_prob >= MediumThreshold THEN "Medium"
    ELSE "Low"

\* every non-zero value taken as contributing
ContributesNonZero(value) == value # 0

\* if value > 0
Contributes(value) == value > 0

\* the contributions list of lines 172-180, in schema order; zip stops at
\* the shortest of its arguments
Contributions(self, X) ==
    LET n == IF Len(X) < Len(self.feature_columns) THEN Len(X)
             ELSE Len(self.feature_columns)
        F[i \in 0..n] ==
            IF i = 0 THEN << >>
            ELSE LET prev == F[i - 1] IN
                 IF Contributes(X[i].val.n)
                 THEN Append(prev,
                             [feature |-> self.feature_columns[i],
                              value |-> X[i].val.n,
                              importance |-> Importance(self.feature_columns[i]),
                              contribution_score |->
                                  Importance(self.feature_columns[i]) * X[i].val.n])
                 ELSE prev
    IN  F[n]

\* list.sort(key=contribution_score, reverse=True): stable, so entries of
\* equal score keep their order
RECURSIVE InsertDesc(_, _)
InsertDesc(sorted, x) ==
    IF sorted = << >> THEN <<x>>
    ELSE IF sorted[1].contribution_score >= x.contribution_score
         THEN <<sorted[1]>> \o InsertDesc(Tail(sorted), x)
         ELSE <<x>> \o sorted
\* the sort without reverse=True: ascending
RECURSIVE InsertAsc(_, _)
InsertAsc(sorted, x) ==
    IF sorted = << >> THEN <<x>>
    ELSE IF sorted[1].contribution_score <= x.contribution_score
         THEN <<sorted[1]>> \o InsertAsc(Tail(sorted), x)
         ELSE <<x>> \o sorted
SortAsc(q) ==
    LET F[i \in 0..Len(q)] == IF i = 0 THEN << >> ELSE InsertAsc(F[i - 1], q[i])
    IN  F[Len(q)]

SortDesc(q) ==
    LET F[i \in 0..Len(q)] == IF i = 0 THEN << >> ELSE InsertDesc(F[i - 1], q[i])
    IN  F[Len(q)]

\* contributions[:5]
Top(q) == SubSeq(q, 1, IF Len(q) < TopN THEN Len(q) ELSE TopN)

_get_top_features(self, X) == Top(SortDesc(Contributions(self, X)))

NoResult == [is_scam |-> FALSE, scam_probability |-> 0, normal_probability |-> 0,
             confidence |-> "", prediction_label |-> "", top_scam_factors |-> << >>]

\* the result dictionary of lines 151-158
PredictionResult(prediction, scam_prob, top_features) ==
    [is_scam |-> (prediction = 1),
     scam_probability |-> scam_prob,
     normal_probability |-> 100 - scam_prob,
     confidence |-> Confidence(scam_prob),
     prediction_label |-> IF prediction = 1 THEN "Scam" ELSE "Normal",
     top_scam_factors |-> top_features]

\* lines 132-158 on what prepare_features left
PredictFrom(self, X) ==
    IF X.exc # "" THEN [exc |-> X.exc, result |-> NoResult]
    ELSE [exc |-> "",
          result |-> PredictionResult(ModelPredict(X.df), PredictProba(X.df),
                                      _get_top_features(self, X.df))]

\* predict: the result dictionary, or the exception prepare_features raised
predict(self, message_data) == PredictFrom(self, prepare_features(self, message_data))

\* one round of the loop of predict_batch
AppendResult(prev, r) ==
    IF r.exc # "" THEN [exc |-> r.exc, results |-> << >>]
    ELSE [exc |-> "", results |-> Append(prev.results, r.result)]
\* a record whose prediction raises is skipped and the loop goes on
SkipFailed(prev, r) == IF r.exc # "" THEN prev ELSE AppendResult(prev, r)
BatchStepSkip(prev, self, msg_data) == SkipFailed(prev, predict(self, msg_data))

BatchStep(prev, self, msg_data) ==
    IF prev.exc # "" THEN prev ELSE AppendResult(prev, predict(self, msg_data))

\* results.append(self.predict(msg_data)) for each record in turn; an
\* exception of predict leaves the loop and the method
predict_batch(self, messages_data) ==
    LET F[i \in 0..Len(messages_data)] ==
            IF i = 0 THEN [exc |-> "", results |-> << >>]
            ELSE BatchStep(F[i - 1], self, messages_data[i])
    IN  F[Len(messages_data)]

(***************************************************************************)
(* The Flask endpoints of api_server.py.  A response is the status code    *)
(* and the JSON body; keys lists the keys the body carries.  Each handler  *)
(* yields its response and the list of the calls of predictor.predict it   *)
(* made: the record passed, the frame after extraction, the aligned        *)
(* vector.                                                                 *)
(***************************************************************************)
None == << >>

EmptyBody == [keys |-> {}, success |-> FALSE, error |-> "", result |-> NoResult,
              results |-> << >>, count |-> 0, model_loaded |-> FALSE,
              features |-> << >>]

ErrorResponse(status, error) ==
    [status |-> status,
     body |-> [EmptyBody EXCEPT !.keys = {"success", "error"}, !.error = error]]

ModelNotLoaded == ErrorResponse(500, "Model not loaded")

\* not data, for a mapping: it has no key
IsEmptyMapping(data) == \A k \in Keys : data[k] = Absent

CallRecord(self, message_data, e) ==
    [message_data |-> message_data, extracted |-> e, X |-> AlignStep(self, e)]
PredictCall(self, message_data) ==
    CallRecord(self, message_data, ExtractStep(self, message_data))

\* GET /health
health_check(pred) ==
    [status |-> 200,
     body |-> [EmptyBody EXCEPT !.keys = {"status", "model_loaded"},
                                !.model_loaded = (pred # None)]]

\* lines 76-89: the result as a response, or the exception as an error
PredictResponse(r) ==
    IF r.exc # "" THEN ErrorResponse(500, r.exc)
    ELSE [status |-> 200,
          body |-> [EmptyBody EXCEPT !.keys = {"success", "result"},
                                     !.success = TRUE,
                                     !.result = r.result]]

\* the body checked before the predictor
ApiPredictBodyFirst(pred, data) ==
    IF IsEmptyMapping(data)
    THEN [response |-> ErrorResponse(400, "Please provide message feature data"),
          calls |-> << >>]
    ELSE IF pred = None THEN [response |-> ModelNotLoaded, calls |-> << >>]
    ELSE [response |-> PredictResponse(predict(pred[1], data)),
          calls |-> <<PredictCall(pred[1], data)>>]

\* POST /predict with the mapping data as its JSON body
ApiPredict(pred, data) ==
    IF pred = None THEN [response |-> ModelNotLoaded, calls |-> << >>]
    ELSE IF IsEmptyMapping(data)
    THEN [response |-> ErrorResponse(400, "Please provide message feature data"),
          calls |-> << >>]
    ELSE [response |-> PredictResponse(predict(pred[1], data)),
          calls |-> <<PredictCall(pred[1], data)>>]

CallStep(prev, i, self, msg_data) ==
    IF Len(prev) < i - 1 \/ (prev # << >> /\ prev[Len(prev)].X.exc # "")
    THEN prev
    ELSE Append(prev, PredictCall(self, msg_data))

\* the calls predict_batch makes: one per record up to and including the
\* first whose predict raises
BatchCalls(self, messages) ==
    LET F[i \in 0..Len(messages)] ==
            IF i = 0 THEN << >>
            ELSE CallStep(F[i - 1], i, self, messages[i])
    IN  F[Len(messages)]

\* lines 141-155: the results as a response, or the exception as an error
BatchResponse(r) ==
    IF r.exc # "" THEN ErrorResponse(500, r.exc)
    ELSE [status |-> 200,
          body |-> [EmptyBody EXCEPT !.keys = {"success", "results", "count"},
                                     !.success = TRUE,
                                     !.results = r.results,
                                     !.count = Len(r.results)]]

\* POST /predict/batch; kind tells the shape of the JSON body: "empty" (not
\* data), "no_messages" (no key 'messages'), "not_list" (messages is not a
\* list), "list" (messages is the list given)
ApiPredictBatch(pred, kind, messages) ==
    IF pred = None THEN [response |-> ModelNotLoaded, calls |-> << >>]
    ELSE IF kind \in {"empty", "no_messages"}
    THEN [response |-> ErrorResponse(400, "Please provide messages array"),
          calls |-> << >>]
    ELSE IF kind = "not_list"
    THEN [response |-> ErrorResponse(400, "messages must be an array"),
          calls |-> << >>]
    ELSE [response |-> BatchResponse(predict_batch(pred[1], messages)),
          calls |-> BatchCalls(pred[1], messages)]

\* GET /model/info
model_info(pred) ==
    IF pred = None THEN ModelNotLoaded
    ELSE [status |-> 200,
          body |-> [EmptyBody EXCEPT !.keys = {"success", "info"},
                                     !.success = TRUE,
                                     !.features = pred[1].feature_columns,
                                     !.count = Len(pred[1].feature_columns)]]

(***************************************************************************)
(* Request records.  A record is a base record changed in at most MaxEdits *)
(* fields; a changed field takes any value of the field's domain or is     *)
(* left out.  The bases are the full record of the demo and the mapping    *)
(* with no field.                                                          *)
(***************************************************************************)
FieldValues(k) ==
    CASE k = "message_text" ->
           {Absent, Null, Num(5), Str(<<"h", "e", "l", "l", "o">>),
            Str(<<"W", "i", "n", " ", "a", " ", "p", "r", "i", "z", "e">>)}
      [] k = "openai_reason" ->
           {Absent, Null, Str(<<"p", "a", "y", " ", "n", "o", "w">>)}
      [] k = "openai_keywords" ->
           {Absent, Null, Num(5), Str(<<"w", "i", "n", ",", "c", "a", "s", "h">>)}
      [] k = "openai_emotion_triggers" ->
           {Absent, Null, Str(<<"f", "e", "a", "r", ",", "h", "u", "r", "r", "y">>)}
      [] k = "openai_action_requested" ->
           {Absent, Null, Str(common_actions[1]), Str(<<"R", "E", "P", "L", "Y">>),
            Str(<<"w", "i", "r", "e">>)}
      [] k = "openai_impersonation_type" ->
           {Absent, Null, Str(common_impersonations[4]), Str(<<"B", "a", "n", "k">>),
            Str(<<"b", "o", "s", "s">>)}
      [] k = "message_length" ->
           {Absent, Null, Num(3), Num(0), Num(-2), Str(<<"7">>),
            Str(<<"a", "b", "c">>)}
      [] k = "has_url" -> {Absent, Num(1), Num(0)}
      [] k \in {"tfidf_msg_0", "tfidf_kw_0"} -> {Absent, Num(4)}
      [] k = "keyword_count" -> {Absent, Num(9)}
      [] OTHER -> {Absent, Str(<<"x">>)}

EmptyRecord == [k \in Keys |-> Absent]

\* test_message_1 of demo(), cut to the fields of the model
DemoRecord ==
    [k \in Keys |->
        CASE k = "message_text" ->
               Str(<<"W", "i", "n", " ", "a", " ", "p", "r", "i", "z", "e">>)
          [] k = "openai_reason" -> Str(<<"p", "a", "y", " ", "n", "o", "w">>)
          [] k = "openai_keywords" -> Str(<<"w", "i", "n", ",", "c", "a", "s", "h">>)
          [] k = "openai_emotion_triggers" ->
               Str(<<"f", "e", "a", "r", ",", "h", "u", "r", "r", "y">>)
          [] k = "openai_action_requested" -> Str(common_actions[1])
          [] k = "openai_impersonation_type" -> Str(common_impersonations[4])
          [] k = "message_length" -> Num(3)
          [] k = "has_url" -> Num(1)
          [] OTHER -> Absent]

RECURSIVE EditsFrom(_, _, _)
EditsFrom(r, i, budget) ==
    IF i > Len(KeyOrder) THEN {r}
    ELSE EditsFrom(r, i + 1, budget)
         \cup (IF budget = 0 THEN {}
               ELSE UNION {EditsFrom([r EXCEPT ![KeyOrder[i]] = v], i + 1, budget - 1) :
                              v \in FieldValues(KeyOrder[i]) \ {r[KeyOrder[i]]}})

Records == EditsFrom(DemoRecord, 1, MaxEdits) \cup EditsFrom(EmptyRecord, 1, MaxEdits)

\* the records batches are made of
BatchPool == {DemoRecord,
              [DemoRecord EXCEPT !["message_text"] = Absent],
              [DemoRecord EXCEPT !["has_url"] = Num(0)],
              [DemoRecord EXCEPT !["tfidf_kw_0"] = Num(4)],
              [EmptyRecord EXCEPT !["message_length"] = Num(3), !["has_url"] = Num(1)]}
Batches == UNION {[1..n -> BatchPool] : n \in 0..MaxBatch}

(***************************************************************************)
(* The trainer of train_model.py.  A training frame is the sequence of its *)
(* rows, each a one-row frame; all rows carry the same columns.  A cell    *)
(* that is empty in the CSV file is null.                                  *)
(***************************************************************************)
\* ENGLISH_STOP_WORDS, the entries that occur in the data sets
StopWords == { <<"n", "o", "w">>, <<"t", "h", "e">>, <<"y", "o", "u">> }

\* characters in code point order
Alphabet == <<" ">> \o Digits \o Uppers \o <<"_">> \o Lowers
CharRank(c) == CHOOSE i \in DOMAIN Alphabet : Alphabet[i] = c
\* a < b for strings
RECURSIVE StrLess(_, _)
StrLess(a, b) ==
    IF a = << >> THEN b # << >>
    ELSE IF b = << >> THEN FALSE
    ELSE IF a[1] = b[1] THEN StrLess(Tail(a), Tail(b))
    ELSE CharRank(a[1]) < CharRank(b[1])
MinTerm(S) == CHOOSE x \in S : \A y \in S \ {x} : StrLess(x, y)
\* sorted(S)
RECURSIVE SortTerms(_)
PrependMin(S, m) == <<m>> \o SortTerms(S \ {m})
SortTerms(S) == IF S = {} THEN << >> ELSE PrependMin(S, MinTerm(S))

\* the tokens of a lower-cased document in order: the maximal runs of word
\* characters of at least minLen characters (cur is the run being read)
CloseRun(cur, minLen) == IF Len(cur) >= minLen THEN <<cur>> ELSE << >>
RECURSIVE Scan(_, _, _, _)
Scan(d, i, cur, minLen) ==
    IF i > Len(d) THEN CloseRun(cur, minLen)
    ELSE IF IsWordChar(d[i]) THEN Scan(d, i + 1, Append(cur, d[i]), minLen)
    ELSE CloseRun(cur, minLen) \o Scan(d, i + 1, << >>, minLen)

\* the tokens without the stop words
DropStopWords(toks, stop) == SelectSeq(toks, LAMBDA w : w \notin stop)
\* the word n-grams, n up to ngram_max (1 or 2), of a token list
NGrams(toks, ngram_max) ==
    [i \in DOMAIN toks |-> toks[i]]
    \o (IF ngram_max < 2 \/ Len(toks) < 2 THEN << >>
        ELSE [i \in 1..(Len(toks) - 1) |-> toks[i] \o <<" ">> \o toks[i + 1]])
\* build_analyzer()(doc): lower-case, tokenize, drop stop words, n-grams
Analyze(cfg, s) ==
    NGrams(DropStopWords(Scan(PyLower(s), 1, << >>, cfg.min_token), cfg.stop_words),
           cfg.ngram_max)

\* TfidfVectorizer(max_features=20, min_df=2, max_df=0.8, ngram_range=(1, 2),
\*                 stop_words='english'); max_df is max_df_num / 10
MsgVectorizerConfig ==
    [max_features |-> 20, min_df |-> 2, max_df_num |-> 8, ngram_max |-> 2,
     stop_words |-> StopWords, min_token |-> 2]
\* TfidfVectorizer(max_features=15, min_df=2, max_df=0.8,
\*                 token_pattern=r'(?u)\b\w+\b', lowercase=True)
KwVectorizerConfig ==
    [max_features |-> 15, min_df |-> 2, max_df_num |-> 8, ngram_max |-> 1,
     stop_words |-> {}, min_token |-> 1]

\* a vectorizer before fit, and one whose fit raised
Unfitted == [ok |-> FALSE, vocabulary |-> << >>, df |-> << >>, n_docs |-> 0]

\* number of occurrences of a term in an analyzed document
TermCount(terms, w) == Cardinality({i \in DOMAIN terms : terms[i] = w})
\* number of documents a term occurs in, and its occurrences in all of them
DocFreq(analyzed, w) ==
    Cardinality({i \in DOMAIN analyzed : w \in Range(analyzed[i])})
TotalCount(analyzed, w) ==
    SumSeq([i \in DOMAIN analyzed |-> TermCount(analyzed[i], w)])

\* _limit_features: the terms within the document frequency limits, cut to
\* the max_features terms of highest total count
KeepTop(kept, analyzed, k) ==
    IF Cardinality(kept) <= k THEN kept
    ELSE CHOOSE S \in SUBSET kept :
             /\ Cardinality(S) = k
             /\ \A w \in S : \A u \in kept \ S :
                    TotalCount(analyzed, w) >= TotalCount(analyzed, u)
LimitFeatures(cfg, analyzed, terms) ==
    KeepTop({w \in terms : /\ DocFreq(analyzed, w) >= cfg.min_df
                           /\ 10 * DocFreq(analyzed, w) <= cfg.max_df_num * Len(analyzed)},
            analyzed, cfg.max_features)

\* the fitted state: the sorted vocabulary, the document frequency of each
\* of its terms (from which idf_ is computed) and the number of documents
Fitted(analyzed, vocabulary) ==
    [ok |-> TRUE, vocabulary |-> vocabulary,
     df |-> [j \in DOMAIN vocabulary |-> DocFreq(analyzed, vocabulary[j])],
     n_docs |-> Len(analyzed)]
FitLimited(analyzed, kept) ==
    IF kept = {} THEN Unfitted ELSE Fitted(analyzed, SortTerms(kept))
FitAnalyzed(cfg, analyzed) ==
    IF UNION {Range(analyzed[i]) : i \in DOMAIN analyzed} = {} THEN Unfitted
    ELSE IF cfg.max_df_num * Len(analyzed) < 10 * cfg.min_df THEN Unfitted
    ELSE FitLimited(analyzed,
                    LimitFeatures(cfg, analyzed,
                                  UNION {Range(analyzed[i]) : i \in DOMAIN analyzed}))

\* vectorizer.fit(docs): raises (AttributeError) on a document that is not a
\* string, (ValueError) on an empty vocabulary, on max_df below min_df and
\* when no term remains after pruning
TfidfFit(cfg, docs) ==
    IF \E i \in DOMAIN docs : docs[i].t # "str" THEN Unfitted
    ELSE FitAnalyzed(cfg, [i \in DOMAIN docs |-> Analyze(cfg, docs[i].s)])

\* the row of document v in fit_transform(docs).toarray(): the L2-normalised
\* TF-IDF weights of the vocabulary's terms
TfidfRow(cfg, fit, v) ==
    [j \in DOMAIN fit.vocabulary |->
        IF fit.vocabulary[j] \in Range(Analyze(cfg, v.s)) THEN 1 ELSE 0]

\* df[c] as the list of its cells
Column(df, c) == [i \in DOMAIN df |-> GetCol(df[i], c)]

\* lines 87-89: df[f] = df[f].fillna('') for the three vectorized or measured
\* text columns
TrainFilledFields == <<"message_text", "openai_reason", "openai_keywords">>
TrainFillRow(row) ==
    LET F[k \in 0..Len(TrainFilledFields)] ==
            IF k = 0 THEN row
            ELSE SetCol(F[k - 1], TrainFilledFields[k],
                        FillNaText(GetCol(row, TrainFilledFields[k])))
    IN  F[Len(TrainFilledFields)]
TrainFill(df) == [i \in DOMAIN df |-> TrainFillRow(df[i])]

\* [f'{prefix}{i}' for i in range(matrix.shape[1])]
BlockNames(prefix, n) == [j \in 1..n |-> prefix \o ToString(j - 1)]

\* lines 101-111 and 123-133: the block of a fitted vectorizer is appended to
\* every row; when fit_transform raised the frame is left as it was
TrainConcat(df, cfg, fit, field, prefix) ==
    IF ~fit.ok THEN df
    ELSE [i \in DOMAIN df |->
             df[i] \o [j \in DOMAIN fit.vocabulary |->
                          Col(BlockNames(prefix, Len(fit.vocabulary))[j],
                              Num(TfidfRow(cfg, fit, GetCol(df[i], field))[j]))]]

\* str(x) of a cell of the training frame, where an empty cell is NaN
TrainStr(v) == IF v.t = "null" THEN <<"n", "a", "n">> ELSE PyStr(v)
\* lines 137 and 147: len(str(x).split(',')) if pd.notna(x) and str(x).strip() else 0
TrainCount(v) ==
    IF NotNa(v) /\ StripNonEmpty(TrainStr(v)) THEN SplitCommaLen(TrainStr(v)) ELSE 0
\* line 142: len(str(x)) if pd.notna(x) else 0
TrainLength(v) == IF NotNa(v) THEN Len(TrainStr(v)) ELSE 0
\* lines 154 and 161: 1 if str(x).lower() == entry else 0
TrainOneHot(v, entry) == IF PyLower(TrainStr(v)) = entry THEN 1 ELSE 0
\* lines 152-155 and 159-162 on one row, entry k onwards
RECURSIVE TrainOneHotBlock(_, _, _, _, _)
TrainOneHotBlock(row, field, vocabulary, names, k) ==
    IF k > Len(vocabulary) THEN row
    ELSE TrainOneHotBlock(
             SetCol(row, names[k], Num(TrainOneHot(GetCol(row, field), vocabulary[k]))),
             field, vocabulary, names, k + 1)
\* lines 136-162 on one row
TrainDeriveRow(row) ==
    TrainOneHotBlock(
        TrainOneHotBlock(
            SetCol(SetCol(SetCol(row,
                    "keyword_count", Num(TrainCount(GetCol(row, "openai_keywords")))),
                    "reason_length", Num(TrainLength(GetCol(row, "openai_reason")))),
                    "emotion_trigger_count",
                    Num(TrainCount(GetCol(row, "openai_emotion_triggers")))),
            "openai_action_requested", common_actions, ActionColumns, 1),
        "openai_impersonation_type", common_impersonations, ImpersonateColumns, 1)
TrainDerive(df) == [i \in DOMAIN df |-> TrainDeriveRow(df[i])]

\* extract_text_features on the filled frame, with the two fits made on it
ExtractWithFits(filled, tfidf, kw) ==
    [tfidf_vectorizer |-> tfidf,
     keyword_vectorizer |-> kw,
     df |-> TrainDerive(TrainConcat(TrainConcat(filled, MsgVectorizerConfig, tfidf,
                                                "message_text", "tfidf_msg_"),
                                    KwVectorizerConfig, kw, "openai_keywords",
                                    "tfidf_kw_"))]
\* lines 93-133: both vectorizers are fitted on the text columns of the frame
\* extract_text_features is given
FitOnFrame(filled) ==
    ExtractWithFits(filled,
                    TfidfFit(MsgVectorizerConfig, Column(filled, "message_text")),
                    TfidfFit(KwVectorizerConfig, Column(filled, "openai_keywords")))
\* extract_text_features(df): the frame with the derived and vectorized
\* columns, and the two vectorizers it leaves in self
extract_text_features(df) == FitOnFrame(TrainFill(df))

\* lines 54-57
exclude_cols == {"message_id", "source", "message_text", "url_domain",
                 "phone_number", "phone_carrier", "openai_reason",
                 "openai_keywords", "openai_impersonation_type",
                 "openai_action_requested", "openai_emotion_triggers"}
\* lines 60-61
FeatureColumns(df) ==
    SelectSeq(Columns(df[1]), LAMBDA c : c \notin exclude_cols \cup {"label"})

\* lines 68-74: a column holding a string has dtype object and is converted
\* with to_numeric(errors='coerce').fillna(0)
IsObjectColumn(X, j) == \E i \in DOMAIN X : X[i][j].val.t = "str"
TrainCoerce(X) ==
    [i \in DOMAIN X |->
        [j \in DOMAIN X[i] |->
            IF IsObjectColumn(X, j)
            THEN Col(X[i][j].name, Num(ToNumericCoerce(X[i][j].val)))
            ELSE X[i][j]]]
\* lines 64-65: X = df[self.feature_columns].copy(); X = X.fillna(0)
TrainSelect(df, feature_columns) ==
    [i \in DOMAIN df |-> FillNaZero(SelectColumns(df[i], feature_columns))]

\* preprocess_data(df) with use_text_features: X, y and what it leaves in self
PreprocessExtracted(e, feature_columns) ==
    [tfidf_vectorizer |-> e.tfidf_vectorizer,
     keyword_vectorizer |-> e.keyword_vectorizer,
     feature_columns |-> feature_columns,
     X |-> TrainCoerce(TrainSelect(e.df, feature_columns)),
     y |-> [i \in DOMAIN e.df |-> GetCol(e.df[i], "label").n]]
PreprocessFrom(e) == PreprocessExtracted(e, FeatureColumns(e.df))
preprocess_data(df) == PreprocessFrom(extract_text_features(df))

\* train_test_split(X, y, test_size=0.2, random_state=42, stratify=y): the
\* test rows are ceil(0.2 n) rows drawn from each class in proportion to its
\* size; which rows is the shuffle's choice
TestSize(n) == (2 * n + 9) \div 10
ClassRows(y, c) == {i \in DOMAIN y : y[i] = c}
StratifiedTestSets(y) ==
    {T \in SUBSET DOMAIN y :
        /\ Cardinality(T) = TestSize(Len(y))
        /\ \A c \in Range(y) :
             /\ Len(y) * Cardinality(T \cap ClassRows(y, c))
                    > TestSize(Len(y)) * Cardinality(ClassRows(y, c)) - Len(y)
             /\ Len(y) * Cardinality(T \cap ClassRows(y, c))
                    < TestSize(Len(y)) * Cardinality(ClassRows(y, c)) + Len(y)}

\* the rows of a frame at the positions S, in frame order
RowsAt(df, S) ==
    LET F[i \in 0..Len(df)] ==
            IF i = 0 THEN << >>
            ELSE LET prev == F[i - 1] IN
                 IF i \in S THEN Append(prev, df[i]) ELSE prev
    IN  F[Len(df)]
\* StandardScaler().fit(rows): per column the number of rows, the sum and the
\* sum of squares, from which mean_ and var_ are computed
ColumnStats(rows, j) ==
    [n |-> Len(rows),
     sum |-> SumSeq([k \in DOMAIN rows |-> rows[k][j].val.n]),
     sumsq |-> SumSeq([k \in DOMAIN rows |-> rows[k][j].val.n * rows[k][j].val.n])]
ScalerFit(rows) == [j \in DOMAIN rows[1] |-> ColumnStats(rows, j)]
\* line 186: (y_train == 0).sum() / (y_train == 1).sum(), as the two counts
ScalePosWeight(y, S) ==
    [neg |-> Cardinality(S \cap ClassRows(y, 0)),
     pos |-> Cardinality(S \cap ClassRows(y, 1))]

\* lines 295-303: the model_data dictionary, as the predictor reads it
SavedBundle(tr) ==
    [use_text_features |-> TRUE,
     tfidf_vectorizer |-> IF tr.tfidf_vectorizer.ok THEN "fitted" ELSE "unfitted",
     keyword_vectorizer |-> IF tr.keyword_vectorizer.ok THEN "fitted" ELSE "unfitted",
     feature_columns |-> tr.feature_columns]

(***************************************************************************)
(* Training data.  read_csv gives ten rows, five of each label, with the   *)
(* columns of the demo record and the label.  The data sets differ in the  *)
(* message of row 3 and the keywords of row 2, which decide the document   *)
(* frequencies of the terms "prize" and "cash", and in message_length      *)
(* being a numeric column or a column of strings.  On every data set a     *)
(* fit that succeeds leaves a vocabulary of one term.                      *)
(***************************************************************************)
TrainingRecord(msg, reason, kw, emo, act, imp, len, url) ==
    [k \in Keys |->
        CASE k = "message_text" -> msg
          [] k = "openai_reason" -> reason
          [] k = "openai_keywords" -> kw
          [] k = "openai_emotion_triggers" -> emo
          [] k = "openai_action_requested" -> act
          [] k = "openai_impersonation_type" -> imp
          [] k = "message_length" -> len
          [] k = "has_url" -> url
          [] OTHER -> Absent]
\* a row of the file: the record's columns and the label
TrainingRow(label, rec) == DataFrame(rec) \o <<Col("label", Num(label))>>
NormalRow(msg, len) ==
    TrainingRow(0, TrainingRecord(msg, Null, Null, Null, Null, Null, len, Num(0)))

\* a cell of message_length: a number, or the text of the CSV cell when the
\* column holds a cell that is not a number
LengthCell(as_text, n) == IF as_text THEN Str(NatStr(n)) ELSE Num(n)

Dataset(msg3, kw2, as_text) ==
    << TrainingRow(1, [DemoRecord EXCEPT !["message_length"] = LengthCell(as_text, 3)]),
       TrainingRow(1, TrainingRecord(
           Str(<<"P", "R", "I", "Z", "E", " ", "n", "o", "w">>), Null, kw2, Null,
           Str(<<"R", "E", "P", "L", "Y">>), Str(<<"B", "a", "n", "k">>),
           LengthCell(as_text, 7), Num(1))),
       TrainingRow(1, TrainingRecord(
           msg3, Str(<<"p", "a", "y", " ", "n", "o", "w">>),
           Str(<<"f", "r", "e", "e">>),
           Str(<<"f", "e", "a", "r", ",", "h", "u", "r", "r", "y">>), Null, Null,
           LengthCell(as_text, 0), Num(0))),
       TrainingRow(1, TrainingRecord(
           Null, Null, Null, Null, Str(<<"w", "i", "r", "e">>),
           Str(<<"b", "o", "s", "s">>), Null, Num(1))),
       TrainingRow(1, TrainingRecord(
           Str(<<"s", "e", "e", " ", "t", "h", "e", " ", "b", "a", "n", "k">>),
           Str(<<"p", "a", "y", " ", "n", "o", "w">>), Str(<<"b", "a", "n", "k">>),
           Null, Str(common_actions[1]), Str(common_impersonations[2]),
           IF as_text THEN Str(<<"a", "b", "c">>) ELSE Num(3), Num(0))),
       NormalRow(Str(<<"h", "e", "l", "l", "o">>), LengthCell(as_text, 3)),
       NormalRow(Str(<<"l", "u", "n", "c", "h">>), LengthCell(as_text, 3)),
       NormalRow(Str(<<"o", "k">>), LengthCell(as_text, 0)),
       NormalRow(Str(<<"m", "e", "e", "t", "i", "n", "g">>), LengthCell(as_text, 7)),
       NormalRow(Str(<<"t", "h", "a", "n", "k", "s">>), LengthCell(as_text, 3)) >>

Datasets ==
    {Dataset(msg3, kw2, as_text) :
        msg3 \in {Str(<<"c", "l", "a", "i", "m", " ", "p", "r", "i", "z", "e">>),
                  Str(<<"c", "l", "a", "i", "m">>)},
        kw2 \in {Str(<<"c", "a", "s", "h">>), Str(<<"l", "o", "a", "n">>)},
        as_text \in BOOLEAN}

\* the record of a row as a request carries it: the row's columns but the label
RowRecord(row) == [k \in Keys |-> IF HasCol(row, k) THEN GetCol(row, k) ELSE Absent]

(***************************************************************************)
(* The service as a state machine.                                         *)
(***************************************************************************)
VARIABLES
    predictor,   \* the module-level predictor: None, or <<bundle>> once loaded
    request,     \* the request last handled
    response,    \* the response to it
    calls,       \* the calls of predictor.predict made while handling it
    workers,     \* per request thread: position and locals of its /predict handler
    frames,      \* the DataFrame each running call of predict works on
    trainer      \* the training run: position and fields of ScamDetectionModel

serving == <<predictor, request, response, calls, workers, frames>>
vars == <<predictor, request, response, calls, workers, frames, trainer>>

Request(endpoint, kind, data, messages) ==
    [endpoint |-> endpoint, kind |-> kind, data |-> data, messages |-> messages]
NoRequest == Request("", "", EmptyRecord, << >>)
NoResponse == [status |-> 0, body |-> EmptyBody]

\* the request threads of the server and the locals of a handler of /predict
Threads == 1..MaxThreads
NoFrame == [exc |-> "", df |-> << >>]
IdleWorker == [pc |-> "idle", sent |-> EmptyRecord, data |-> EmptyRecord,
               result |-> [exc |-> "", result |-> NoResult],
               response |-> NoResponse]

\* ScamDetectionModel(use_text_features=True) before load_data
NewTrainer ==
    [pc |-> "start", data |-> << >>, tfidf_vectorizer |-> Unfitted,
     keyword_vectorizer |-> Unfitted, feature_columns |-> << >>,
     X |-> << >>, y |-> << >>, test |-> {}, scaler |-> << >>,
     scale_pos_weight |-> [neg |-> 0, pos |-> 0], saved |-> None]

\* lines 14-21 of api_server.py: the bundle loads, or loading fails and the
\* predictor is None
Init ==
    /\ predictor \in {None} \cup {<<b>> : b \in Bundles}
    /\ request = NoRequest
    /\ response = NoResponse
    /\ calls = << >>
    /\ workers = [t \in Threads |-> IdleWorker]
    /\ frames = [t \in Threads |-> NoFrame]
    /\ trainer = NewTrainer

\* The model follows one request at a time from its arrival to its response:
\* a handler runs when no request is being followed, and returning the
\* response ends the request.
Idle == request = NoRequest

\* a handler has run on the request: h is its response and its calls
Handle(req, h) ==
    /\ request' = req
    /\ response' = h.response
    /\ calls' = h.calls

HealthCheck ==
    /\ Idle
    /\ request' = Request("/health", "", EmptyRecord, << >>)
    /\ response' = health_check(predictor)
    /\ calls' = << >>
    /\ UNCHANGED <<predictor, workers, frames, trainer>>

PostPredict ==
    /\ Idle
    /\ \E data \in Records :
         Handle(Request("/predict", "mapping", data, << >>),
                ApiPredict(predictor, data))
    /\ UNCHANGED <<predictor, workers, frames, trainer>>

PostPredictBatch ==
    /\ Idle
    /\ \E kind \in {"empty", "no_messages", "not_list", "list"} :
         \E messages \in (IF kind = "list" THEN Batches ELSE {<< >>}) :
           Handle(Request("/predict/batch", kind, EmptyRecord, messages),
                  ApiPredictBatch(predictor, kind, messages))
    /\ UNCHANGED <<predictor, workers, frames, trainer>>

GetModelInfo ==
    /\ Idle
    /\ request' = Request("/model/info", "", EmptyRecord, << >>)
    /\ response' = model_info(predictor)
    /\ calls' = << >>
    /\ UNCHANGED <<predictor, workers, frames, trainer>>

\* the response goes back to the client and the request context ends
Respond ==
    /\ ~Idle
    /\ request' = NoRequest
    /\ response' = NoResponse
    /\ calls' = << >>
    /\ UNCHANGED <<predictor, workers, frames, trainer>>

Next == HealthCheck \/ PostPredict \/ PostPredictBatch \/ GetModelInfo \/ Respond

Spec == Init /\ [][Next]_vars

(***************************************************************************)
(* Concurrent service.  app.run serves each request on a thread of its     *)
(* own, and every thread reads the one module-level predictor.  A thread   *)
(* handling POST /predict goes through the statements of the handler and   *)
(* of predict and prepare_features one at a time, and the threads          *)
(* interleave in any order.  The locals of a call (data, df, X, result)    *)
(* belong to the thread; frames holds the DataFrame objects, one per call. *)
(***************************************************************************)
\* the records the concurrent requests carry
ConcurrentPool == {DemoRecord,
                   [DemoRecord EXCEPT !["message_text"] = Str(<<"h", "e", "l", "l", "o">>),
                                      !["has_url"] = Num(0)],
                   [DemoRecord EXCEPT !["message_text"] = Absent]}

\* one DataFrame object for all calls
SharedFrame(t) == 1

\* df = pd.DataFrame([message_data]): the frame a call of prepare_features
\* allocates is an object of that call
LocalFrame(t) == t

ServeInit ==
    /\ predictor \in {<<b>> : b \in Bundles}
    /\ request = NoRequest
    /\ response = NoResponse
    /\ calls = << >>
    /\ workers = [t \in Threads |-> IdleWorker]
    /\ frames = [t \in Threads |-> NoFrame]
    /\ trainer = NewTrainer

\* api_server.py line 67: data = request.get_json(), a non-empty mapping, with
\* the predictor loaded
Accept(t) ==
    /\ workers[t].pc = "idle"
    /\ predictor # None
    /\ \E data \in ConcurrentPool :
         workers' = [workers EXCEPT ![t] = [IdleWorker EXCEPT !.pc = "called",
                                                              !.sent = data,
                                                              !.data = data]]
    /\ UNCHANGED <<predictor, request, response, calls, frames, trainer>>

\* predict.py line 32
MakeFrame(t) ==
    /\ workers[t].pc = "called"
    /\ frames' = [frames EXCEPT ![LocalFrame(t)] =
                      [exc |-> "", df |-> DataFrame(workers[t].data)]]
    /\ workers' = [workers EXCEPT ![t].pc = "framed"]
    /\ UNCHANGED <<predictor, request, response, calls, trainer>>

\* predict.py lines 35-36
Extract(t) ==
    /\ workers[t].pc = "framed"
    /\ frames' = [frames EXCEPT ![LocalFrame(t)] =
                      ExtractFrame(predictor[1], frames[LocalFrame(t)].df)]
    /\ workers' = [workers EXCEPT ![t].pc = "extracted"]
    /\ UNCHANGED <<predictor, request, response, calls, trainer>>

\* predict.py lines 38-54
Align(t) ==
    /\ workers[t].pc = "extracted"
    /\ frames' = [frames EXCEPT ![LocalFrame(t)] =
                      AlignStep(predictor[1], frames[LocalFrame(t)])]
    /\ workers' = [workers EXCEPT ![t].pc = "aligned"]
    /\ UNCHANGED <<predictor, request, response, calls, trainer>>

\* predict.py lines 132-158
Predict(t) ==
    /\ workers[t].pc = "aligned"
    /\ workers' = [workers EXCEPT ![t].pc = "predicted",
                                  ![t].result =
                                      PredictFrom(predictor[1], frames[LocalFrame(t)])]
    /\ UNCHANGED <<predictor, request, response, calls, frames, trainer>>

\* api_server.py lines 78-89; predict has returned and its frame is gone
Reply(t) ==
    /\ workers[t].pc = "predicted"
    /\ workers' = [workers EXCEPT ![t].pc = "done",
                                  ![t].response = PredictResponse(workers[t].result)]
    /\ frames' = [frames EXCEPT ![LocalFrame(t)] = NoFrame]
    /\ UNCHANGED <<predictor, request, response, calls, trainer>>

\* the response is sent and the thread takes the next request
Finish(t) ==
    /\ workers[t].pc = "done"
    /\ workers' = [workers EXCEPT ![t] = IdleWorker]
    /\ UNCHANGED <<predictor, request, response, calls, frames, trainer>>

ServeNext ==
    \E t \in Threads :
        \/ Accept(t)
        \/ MakeFrame(t)
        \/ Extract(t)
        \/ Align(t)
        \/ Predict(t)
        \/ Reply(t)
        \/ Finish(t)

ServeSpec == ServeInit /\ [][ServeNext]_vars

(***************************************************************************)
(* The training run: main() of train_model.py calls load_data,             *)
(* preprocess_data, train and save_model in turn.                          *)
(***************************************************************************)
TrainInit ==
    /\ predictor = None
    /\ request = NoRequest
    /\ response = NoResponse
    /\ calls = << >>
    /\ workers = [t \in Threads |-> IdleWorker]
    /\ frames = [t \in Threads |-> NoFrame]
    /\ trainer = NewTrainer

\* df = detector.load_data()
LoadData ==
    /\ trainer.pc = "start"
    /\ \E d \in Datasets : trainer' = [trainer EXCEPT !.pc = "loaded", !.data = d]
    /\ UNCHANGED serving

\* X, y = detector.preprocess_data(df)
Preprocessed(tr, p) ==
    [tr EXCEPT !.pc = "preprocessed",
               !.tfidf_vectorizer = p.tfidf_vectorizer,
               !.keyword_vectorizer = p.keyword_vectorizer,
               !.feature_columns = p.feature_columns,
               !.X = p.X,
               !.y = p.y]
PreprocessData ==
    /\ trainer.pc = "loaded"
    /\ trainer' = Preprocessed(trainer, preprocess_data(trainer.data))
    /\ UNCHANGED serving

\* detector.train(X, y): the split, then the scaler fitted on X_train and
\* the class weight computed from y_train
Trained(tr, test) ==
    [tr EXCEPT !.pc = "trained",
               !.test = test,
               !.scaler = ScalerFit(RowsAt(tr.X, DOMAIN tr.y \ test)),
               !.scale_pos_weight = ScalePosWeight(tr.y, DOMAIN tr.y \ test)]
Train ==
    /\ trainer.pc = "preprocessed"
    /\ \E test \in StratifiedTestSets(trainer.y) : trainer' = Trained(trainer, test)
    /\ UNCHANGED serving

\* detector.save_model()
SaveModel ==
    /\ trainer.pc = "trained"
    /\ trainer' = [trainer EXCEPT !.pc = "saved", !.saved = <<SavedBundle(trainer)>>]
    /\ UNCHANGED serving

\* api_server.py lines 14-21: the service starts and ScamPredictor() loads
\* the bundle the training run saved
LoadModel ==
    /\ trainer.pc = "saved"
    /\ predictor = None
    /\ predictor' = trainer.saved
    /\ UNCHANGED <<request, response, calls, workers, frames, trainer>>

\* POST /predict with the record of a row of the training data
ServeTrainingRow ==
    /\ trainer.pc = "saved"
    /\ predictor # None
    /\ Idle
    /\ \E i \in DOMAIN trainer.data :
         Handle(Request("/predict", "mapping", RowRecord(trainer.data[i]), << >>),
                ApiPredict(predictor, RowRecord(trainer.data[i])))
    /\ UNCHANGED <<predictor, workers, frames, trainer>>

TrainNext ==
    \/ LoadData
    \/ PreprocessData
    \/ Train
    \/ SaveModel
    \/ LoadModel
    \/ ServeTrainingRow
    \/ Respond

TrainSpec == TrainInit /\ [][TrainNext]_vars

(***************************************************************************)
(* Properties.                                                             *)
(***************************************************************************)
Loaded == predictor # None
Schema == predictor[1].feature_columns
\* the extractor runs in prepare_features
TextOn == Loaded /\ predictor[1].use_text_features
                 /\ predictor[1].tfidf_vectorizer # "none"
\* the mapping carries key k
RecordHas(md, k) == k \in Keys /\ md[k] # Absent
\* the prediction results the response carries
Results ==
    IF "result" \in response.body.keys THEN {response.body.result}
    ELSE IF "results" \in response.body.keys THEN Range(response.body.results)
    ELSE {}
\* a text field as the extractor is to see it: '' when absent or null
TextOf(md, f) == IF md[f].t \in {"absent", "null"} THEN Str(<< >>) ELSE md[f]
\* the transform of a block cannot succeed on this record
MsgTransformFails(md) ==
    predictor[1].tfidf_vectorizer = "unfitted" \/ TextOf(md, "message_text").t # "str"
KwTransformFails(md) ==
    predictor[1].keyword_vectorizer = "unfitted" \/ TextOf(md, "openai_keywords").t # "str"
\* position of a column in the schema (0 when it is not a schema column)
SchemaIndex(c) ==
    IF c \in Range(Schema) THEN CHOOSE j \in DOMAIN Schema : Schema[j] = c ELSE 0

\* C1: for every record passed to prepare_features that lacks a schema
\* column, the aligned vector is returned, its columns are exactly the schema
\* columns in schema order, and every schema column that neither the record
\* nor the extractor supplies is 0.
C1_AlignedWhenColumnsMissing ==
    \A i \in DOMAIN calls :
        LET c == calls[i] IN
        (\E j \in DOMAIN Schema : ~RecordHas(c.message_data, Schema[j]))
        => /\ c.X.exc = ""
           /\ Columns(c.X.df) = Schema
           /\ \A j \in DOMAIN Schema :
                (~RecordHas(c.message_data, Schema[j])
                 /\ ~HasCol(c.extracted.df, Schema[j]))
                => c.X.df[j].val = Num(0)

\* C2: whatever frame the extractor hands to the aligner (extra keys, keys
\* named like derived or vectorized columns, nulls, unparseable strings),
\* the aligner does not raise and returns exactly the schema's columns, all
\* numeric: nulls and strings that do not parse are 0, extras are dropped.
C2_AlignerTotal ==
    \A i \in DOMAIN calls :
        LET c == calls[i] IN
        c.extracted.exc = ""
        => /\ c.X.exc = ""
           /\ Len(c.X.df) = Len(Schema)
           /\ Columns(c.X.df) = Schema
           /\ \A j \in DOMAIN c.X.df : c.X.df[j].val.t = "num"
           /\ \A j \in DOMAIN Schema :
                (HasCol(c.extracted.df, Schema[j])
                 /\ ( GetCol(c.extracted.df, Schema[j]).t = "null"
                      \/ GetCol(c.extracted.df, Schema[j]) = Str(<<"a", "b", "c">>)))
                => c.X.df[j].val = Num(0)

\* C3: with text features on, a record in which a text field is absent or
\* null is extracted without an exception, the field being read as the empty
\* string.
C3_AbsentTextIsEmpty ==
    \A i \in DOMAIN calls :
        LET c == calls[i] IN
        (TextOn /\ \E k \in DOMAIN TextFields :
                       c.message_data[TextFields[k]].t \in {"absent", "null"})
        => /\ c.extracted.exc = ""
           /\ \A k \in DOMAIN TextFields :
                c.message_data[TextFields[k]].t \in {"absent", "null"}
                => GetCol(c.extracted.df, TextFields[k]) = Str(<< >>)

\* C4: in every prediction result the confidence is High exactly when
\* p_scam >= 0.8, Medium exactly when 0.6 <= p_scam < 0.8 and Low exactly
\* when p_scam < 0.6 (p_scam in percent).
C4_ConfidenceTier ==
    \A r \in Results :
        /\ r.confidence \in {"High", "Medium", "Low"}
        /\ (r.confidence = "High") <=> (r.scam_probability >= 80)
        /\ (r.confidence = "Medium") <=>
               (r.scam_probability >= 60 /\ r.scam_probability < 80)
        /\ (r.confidence = "Low") <=> (r.scam_probability < 60)
\* a result at the boundary 0.8
C4_Witness ==
    \E r \in Results : r.scam_probability = 80 /\ r.confidence = "High"

\* C5: a batch of N records handed to predict_batch is answered with exactly
\* N results, the i-th being the result of the i-th record's own prediction.
C5_BatchIsPointwise ==
    (Loaded /\ request.endpoint = "/predict/batch" /\ request.kind = "list")
    => /\ "results" \in response.body.keys
       /\ Len(response.body.results) = Len(request.messages)
       /\ \A i \in DOMAIN request.messages :
            LET X == prepare_features(predictor[1], request.messages[i]).df
                r == response.body.results[i]
            IN  /\ r.scam_probability = PredictProba(X)
                /\ r.top_scam_factors = _get_top_features(predictor[1], X)

\* C6: every prediction result lists at most 5 factors, each with a value
\* above 0, and no feature whose aligned value is 0 or below is listed.
C6_TopFactorsPositive ==
    /\ \A r \in Results :
         /\ Len(r.top_scam_factors) <= 5
         /\ \A k \in DOMAIN r.top_scam_factors : r.top_scam_factors[k].value > 0
    /\ (request.endpoint = "/predict" /\ "result" \in response.body.keys)
       => \A j \in DOMAIN Schema :
            calls[1].X.df[j].val.n <= 0
            => \A k \in DOMAIN response.body.result.top_scam_factors :
                 response.body.result.top_scam_factors[k].feature # Schema[j]
\* five factors listed while more than five features are positive and a
\* feature of value 0 is left out
C6_Witness ==
    /\ request.endpoint = "/predict" /\ "result" \in response.body.keys
    /\ Len(response.body.result.top_scam_factors) = 5
    /\ Cardinality({j \in DOMAIN Schema : calls[1].X.df[j].val.n > 0}) > 5
    /\ \E j \in DOMAIN Schema : calls[1].X.df[j].val.n = 0

\* C7: when the predictor is None, a request to /predict, /predict/batch or
\* /model/info is answered with the error 'Model not loaded' (status 500,
\* success false) and no call of predictor.predict is made.
C7_ModelNotLoaded ==
    (~Loaded /\ request.endpoint \in {"/predict", "/predict/batch", "/model/info"})
    => /\ response.status = 500
       /\ response.body.keys = {"success", "error"}
       /\ ~response.body.success
       /\ response.body.error = "Model not loaded"
       /\ calls = << >>
\* a prediction request with a full record, refused for want of a model
C7_Witness ==
    /\ ~Loaded
    /\ request.endpoint = "/predict"
    /\ request.data = DemoRecord
    /\ response.body.error = "Model not loaded"

\* C8: with a model loaded, every /predict request whose body is a mapping
\* (fields missing or malformed, or no field at all) is answered with a
\* prediction result and not with an error.
C8_MissingFieldsRecovered ==
    (Loaded /\ request.endpoint = "/predict")
    => /\ response.status = 200
       /\ response.body.success
       /\ "result" \in response.body.keys

\* C9: when a vectorizer's transform fails during extraction, the other
\* block and the derived features are still computed, prepare_features
\* returns a vector of exactly the schema's columns, and the columns of the
\* failed block are 0 in it.
C9_TransformFailureSwallowed ==
    \A i \in DOMAIN calls :
        LET c == calls[i]
            md == c.message_data
            BlockZero(names) ==
                \A k \in DOMAIN names :
                    SchemaIndex(names[k]) # 0
                    => c.X.df[SchemaIndex(names[k])].val = Num(0)
        IN
        (TextOn /\ c.extracted.exc = ""
                /\ (MsgTransformFails(md) \/ KwTransformFails(md)))
        => /\ \A k \in DOMAIN DerivedColumns : HasCol(c.extracted.df, DerivedColumns[k])
           /\ ~MsgTransformFails(md) => HasCol(c.extracted.df, TfidfMsgColumns[1])
           /\ ~KwTransformFails(md) => HasCol(c.extracted.df, TfidfKwColumns[1])
           /\ c.X.exc = ""
           /\ Columns(c.X.df) = Schema
           /\ MsgTransformFails(md) => BlockZero(TfidfMsgColumns)
           /\ KwTransformFails(md) => BlockZero(TfidfKwColumns)

\* C10: the extractor never raises because of the value of the action or
\* impersonation field (it raises only when a text field is absent); when it
\* returns, each indicator of a block is 1 exactly when the lower-cased value
\* equals its vocabulary entry and 0 otherwise, so at most one indicator of
\* a block is 1 and a value outside the vocabulary gives four zeros; the
\* aligned vector carries the same indicators.
C10_OneHot ==
    \A i \in DOMAIN calls :
        LET c == calls[i]
            md == c.message_data
            BlockOk(field, vocabulary, names) ==
                LET low == PyLower(PyStr(TextOf(md, field)))
                    ind == [k \in DOMAIN names |-> GetCol(c.extracted.df, names[k])]
                IN  /\ \A k \in DOMAIN names :
                         /\ ind[k] \in {Num(0), Num(1)}
                         /\ (ind[k] = Num(1)) <=> (low = vocabulary[k])
                         /\ c.X.exc = "" => c.X.df[SchemaIndex(names[k])].val = ind[k]
                    /\ Cardinality({k \in DOMAIN names : ind[k] = Num(1)}) <= 1
                    /\ (low \notin Range(vocabulary))
                       => \A k \in DOMAIN names : ind[k] = Num(0)
        IN
        TextOn
        => /\ c.extracted.exc # ""
              => \E k \in DOMAIN TextFields : md[TextFields[k]] = Absent
           /\ c.extracted.exc = ""
              => /\ BlockOk("openai_action_requested", common_actions, ActionColumns)
                 /\ BlockOk("openai_impersonation_type", common_impersonations,
                            ImpersonateColumns)
\* an action outside the vocabulary and an impersonation type matched only
\* after lower-casing
C10_Witness ==
    /\ TextOn
    /\ request.endpoint = "/predict"
    /\ calls # << >>
    /\ calls[1].message_data["openai_action_requested"] = Str(<<"w", "i", "r", "e">>)
    /\ calls[1].message_data["openai_impersonation_type"] = Str(<<"B", "a", "n", "k">>)
    /\ calls[1].X.exc = ""
    /\ \A k \in DOMAIN ActionColumns :
         calls[1].X.df[SchemaIndex(ActionColumns[k])].val = Num(0)
    /\ calls[1].X.df[SchemaIndex("impersonate_bank")].val = Num(1)

\* C11: under every interleaving of concurrent /predict requests, no step
\* changes the loaded bundle or the record the client sent, and the response
\* of every request is the response the same record gets when it is served
\* alone.
C11_ConcurrentAsAlone ==
    /\ [][predictor' = predictor]_vars
    /\ [](\A t \in Threads :
            /\ workers[t].data = workers[t].sent
            /\ workers[t].pc \in {"predicted", "done"}
               => workers[t].result = predict(predictor[1], workers[t].sent)
            /\ workers[t].pc = "done"
               => workers[t].response = ApiPredict(predictor, workers[t].sent).response)
\* two requests with different records in flight at once, the first answered
\* after the second has built its frame
C11_Witness ==
    /\ workers[1].pc = "done"
    /\ workers[1].sent = DemoRecord
    /\ workers[1].response.status = 200
    /\ workers[2].pc \in {"framed", "extracted", "aligned"}
    /\ workers[2].sent # DemoRecord

\* the rows of the training split, as the trainer's text columns hold them
TrainSplit == DOMAIN trainer.y \ trainer.test
TrainSplitDocs(field) ==
    Column(RowsAt(TrainFill(trainer.data), TrainSplit), field)

\* C12: in a training run no vectorizer is fitted before the split, and once
\* the split is made the two vectorizers (vocabulary, document frequencies,
\* number of documents) and the scaler (mean and variance of every column)
\* are those a fit on the rows of the training split alone gives.
C12_FitOnTrainingSplitOnly ==
    /\ trainer.pc = "preprocessed"
       => ~trainer.tfidf_vectorizer.ok /\ ~trainer.keyword_vectorizer.ok
    /\ trainer.pc \in {"trained", "saved"}
       => /\ trainer.tfidf_vectorizer =
                 TfidfFit(MsgVectorizerConfig, TrainSplitDocs("message_text"))
          /\ trainer.keyword_vectorizer =
                 TfidfFit(KwVectorizerConfig, TrainSplitDocs("openai_keywords"))
          /\ trainer.scaler = ScalerFit(RowsAt(trainer.X, TrainSplit))

\* C13: when the bundle a training run saved serves the record of a row of
\* its training data (rows with null text fields included), the predictor
\* is still the saved bundle with the vectorizers as trained, and the aligned
\* vector holds, for every schema column, the value the training pipeline
\* computed for that row.
C13_FeatureParity ==
    /\ (trainer.pc = "saved" /\ predictor # None) => predictor = trainer.saved
    /\ (trainer.pc = "saved" /\ request.endpoint = "/predict")
       => \A i \in DOMAIN trainer.data :
            RowRecord(trainer.data[i]) = request.data
            => /\ calls # << >>
               /\ calls[1].X.exc = ""
               /\ Columns(calls[1].X.df) = trainer.feature_columns
               /\ \A j \in DOMAIN trainer.feature_columns :
                    calls[1].X.df[j].val = trainer.X[i][j].val
\* a row whose text fields are all null is served and gets the training
\* values, on a data set whose other rows give the message block a non-zero
\* value and whose message_length column is text
C13_Witness ==
    /\ trainer.pc = "saved"
    /\ request.endpoint = "/predict"
    /\ request.data = RowRecord(trainer.data[4])
    /\ request.data["message_text"] = Null
    /\ response.status = 200
    /\ calls[1].X.df = trainer.X[4]
    /\ trainer.tfidf_vectorizer.ok
    /\ \E i \in DOMAIN trainer.X : trainer.X[i][3] = Col("tfidf_msg_0", Num(1))
    /\ trainer.data[1][7].val.t = "str"

\* the results the response carries, each with the aligned vector of its call
Served ==
    IF "result" \in response.body.keys
    THEN {[result |-> response.body.result, X |-> calls[1].X.df]}
    ELSE IF "results" \in response.body.keys
    THEN {[result |-> response.body.results[i], X |-> calls[i].X.df] :
             i \in DOMAIN response.body.results}
    ELSE {}
\* the schema positions of strictly positive value, and importance x value
Qualifying(X) == {j \in DOMAIN Schema : X[j].val.n > 0}
ContributionOf(X, j) == Importance(Schema[j]) * X[j].val.n

\* C14: the factor list of every result holds min(5, number of schema
\* features of strictly positive aligned value) entries, each a distinct such
\* feature with its value, its importance and importance x value as the
\* score, in descending order of score, and no such feature left out has a
\* score above a listed one.
C14_TopFiveByContribution ==
    \A sv \in Served :
        LET L == sv.result.top_scam_factors
            Q == Qualifying(sv.X)
        IN  /\ Len(L) = (IF Cardinality(Q) < 5 THEN Cardinality(Q) ELSE 5)
            /\ \A k \in DOMAIN L :
                 \E j \in Q : /\ L[k].feature = Schema[j]
                               /\ L[k].value = sv.X[j].val.n
                               /\ L[k].importance = Importance(Schema[j])
                               /\ L[k].contribution_score = ContributionOf(sv.X, j)
            /\ \A k1, k2 \in DOMAIN L :
                 /\ k1 # k2 => L[k1].feature # L[k2].feature
                 /\ k1 < k2 => L[k1].contribution_score >= L[k2].contribution_score
            /\ \A j \in Q :
                 (\A k \in DOMAIN L : L[k].feature # Schema[j])
                 => \A k \in DOMAIN L : ContributionOf(sv.X, j) <= L[k].contribution_score
\* more than five features qualify, one left out scores strictly below the
\* last one listed, and the list is not in schema order
C14_Witness ==
    /\ request.endpoint = "/predict" /\ "result" \in response.body.keys
    /\ Cardinality(Qualifying(calls[1].X.df)) > 5
    /\ \E j \in Qualifying(calls[1].X.df) :
         /\ \A k \in 1..5 : response.body.result.top_scam_factors[k].feature # Schema[j]
         /\ ContributionOf(calls[1].X.df, j)
                < response.body.result.top_scam_factors[5].contribution_score
    /\ \E k \in 1..4 :
         SchemaIndex(response.body.result.top_scam_factors[k].feature)
            > SchemaIndex(response.body.result.top_scam_factors[k + 1].feature)

\* C15: in every prediction result a confidence of High or Medium comes
\* with is_scam true and the label Scam, a result labelled Normal has the
\* confidence Low whatever its normal probability, and is_scam is true
\* exactly when the label is Scam.
C15_TierFollowsScamProbability ==
    \A r \in Results :
        /\ r.prediction_label \in {"Scam", "Normal"}
        /\ r.is_scam <=> (r.prediction_label = "Scam")
        /\ r.confidence \in {"High", "Medium"}
           => r.is_scam /\ r.prediction_label = "Scam"
        /\ r.prediction_label = "Normal" => r.confidence = "Low"
\* a result that is Normal with probability 0.9 or more, and Low
C15_Witness ==
    \E r \in Results : /\ r.prediction_label = "Normal"
                        /\ ~r.is_scam
                        /\ r.normal_probability >= 90
                        /\ r.confidence = "Low"

\* the positions of the records of the batch whose prediction raises
FailingRecords ==
    {i \in DOMAIN request.messages : predict(predictor[1], request.messages[i]).exc # ""}
FirstFailing == CHOOSE i \in FailingRecords : \A j \in FailingRecords : i <= j

\* C16: when predict raises for a record of a batch, /predict/batch answers
\* with one error response (status 500, success false, the exception's text)
\* that carries no result of any record, and predict was called for the
\* records up to the first failing one and for none after it.
C16_BatchAllOrNothing ==
    (Loaded /\ request.endpoint = "/predict/batch" /\ request.kind = "list"
            /\ FailingRecords # {})
    => /\ response.status = 500
       /\ response.body.keys = {"success", "error"}
       /\ ~response.body.success
       /\ response.body.error = predict(predictor[1], request.messages[FirstFailing]).exc
       /\ response.body.results = << >>
       /\ response.body.count = 0
       /\ Len(calls) = FirstFailing
       /\ \A i \in DOMAIN calls : calls[i].message_data = request.messages[i]
       /\ predict_batch(predictor[1], request.messages).results = << >>
\* a batch of three whose first record predicts, whose second raises and
\* whose third would predict
C16_Witness ==
    /\ Loaded /\ request.endpoint = "/predict/batch" /\ request.kind = "list"
    /\ Len(request.messages) = 3
    /\ FailingRecords = {2}
    /\ Len(calls) = 2
    /\ calls[1].X.exc = ""
    /\ response.status = 500

=============================================================================
